---- MODULE Spec2Model ----
(***************************************************************************)
(* shape(data, key_patterns, describe_numbers, sort) of src/shape/         *)
(* __init__.py as a state machine: one state per stage of the pipeline     *)
(*   _get_paths -> _apply_patterns -> _describe_numbers -> sorted          *)
(*   -> _collapse_paths -> _merge_paths (one step per path) ->             *)
(*   _convert_lists                                                        *)
(* A Python str is a sequence of one-character strings, so that re.sub,    *)
(* the f-string of the numeric description and the ordering of strings     *)
(* are computed and not looked up.  A Python dict is a sequence of         *)
(* key/value entries in insertion order.                                   *)
(***************************************************************************)
EXTENDS Integers, Sequences, FiniteSets

VARIABLES data, key_patterns, describe_numbers, sort, pc, paths, merged, path_i, result

vars == <<data, key_patterns, describe_numbers, sort, pc, paths, merged, path_i, result>>

\* Largest number of nodes (containers and scalars) of an input value.
MaxSize == 5

(***************************************************************************)
(* Strings                                                                 *)
(***************************************************************************)
S_NoneType == <<"N", "o", "n", "e", "T", "y", "p", "e">>
S_int == <<"i", "n", "t">>
S_float == <<"f", "l", "o", "a", "t">>
S_str == <<"s", "t", "r">>
S_zero == <<"z", "e", "r", "o">>
S_nonzero == <<"n", "o", "n", "z", "e", "r", "o">>
S_user_1 == <<"u", "s", "e", "r", "_", "1">>
S_user_2 == <<"u", "s", "e", "r", "_", "2">>
S_user_star == <<"u", "s", "e", "r", "_", "*">>

\* Code points of the characters that occur (str comparison is by code point).
Ord(c) ==
    CASE c = "*" -> 42 [] c = "1" -> 49 [] c = "2" -> 50 [] c = ":" -> 58
      [] c = "N" -> 78 [] c = "T" -> 84 [] c = "_" -> 95 [] c = "a" -> 97
      [] c = "e" -> 101 [] c = "f" -> 102 [] c = "i" -> 105 [] c = "l" -> 108
      [] c = "n" -> 110 [] c = "o" -> 111 [] c = "p" -> 112 [] c = "r" -> 114
      [] c = "s" -> 115 [] c = "t" -> 116 [] c = "u" -> 117 [] c = "y" -> 121
      [] c = "z" -> 122

IsDigit(c) == c \in {"0", "1", "2", "3", "4", "5", "6", "7", "8", "9"}

\* str.__lt__: lexicographic on code points, a proper prefix is smaller.
RECURSIVE StrLess(_, _)
StrLess(a, b) ==
    IF b = <<>> THEN FALSE
    ELSE IF a = <<>> THEN TRUE
    ELSE IF Head(a) = Head(b) THEN StrLess(Tail(a), Tail(b))
    ELSE Ord(Head(a)) < Ord(Head(b))

(***************************************************************************)
(* Input values.  t is the branch _get_paths takes: "list" (line 30),      *)
(* "dict" (line 32) or "scalar" (line 34); typ is type(data).__name__ and  *)
(* zero is data == 0; items are the entries in iteration order (a list's   *)
(* entries carry the empty key, enumerate supplies the index).             *)
(***************************************************************************)
Scalar(typ, zero) == [t |-> "scalar", typ |-> typ, zero |-> zero, items |-> <<>>]
List(items) == [t |-> "list", typ |-> <<>>, zero |-> FALSE, items |-> items]
Dict(items) == [t |-> "dict", typ |-> <<>>, zero |-> FALSE, items |-> items]
Entry(k, v) == [key |-> k, val |-> v]

\* None, 0, 5, 3.5, 0.0 and "s".
V_None == Scalar(S_NoneType, FALSE)
V_int0 == Scalar(S_int, TRUE)
V_int5 == Scalar(S_int, FALSE)
V_float == Scalar(S_float, FALSE)
V_float0 == Scalar(S_float, TRUE)
V_str == Scalar(S_str, FALSE)

RootScalars == {V_None, V_int0, V_int5, V_float, V_float0, V_str}
LeafScalars == {V_None, V_int5}
Keys == {S_user_1, S_user_2}

\* Every sequence of values whose sizes add up to n, and every value of n nodes.
RECURSIVE ItemSeqs(_), ValuesOfSize(_)
ItemSeqs(n) ==
    IF n = 0 THEN {<<>>}
    ELSE UNION {{<<v>> \o rest : v \in ValuesOfSize(k), rest \in ItemSeqs(n - k)} : k \in 1..n}

\* The sequences of distinct keys: the keys of a dict in insertion order.
RECURSIVE KeySeqsOf(_)
KeySeqsOf(free) ==
    {<<>>} \cup UNION {{<<k>> \o rest : rest \in KeySeqsOf(free \ {k})} : k \in free}
KeySeqs == KeySeqsOf(Keys)

\* What a container can be: a list, or a dict holding the keys ks in order.
Containers == {[list |-> TRUE, keys |-> <<>>]} \cup {[list |-> FALSE, keys |-> ks] : ks \in KeySeqs}
Container(c, vs) ==
    IF c.list THEN List([j \in 1..Len(vs) |-> Entry(<<>>, vs[j])])
    ELSE Dict([j \in 1..Len(vs) |-> Entry(c.keys[j], vs[j])])

ValuesOfSize(n) ==
    IF n = 1 THEN LeafScalars \cup {List(<<>>), Dict(<<>>)}
    ELSE {Container(p[2], p[1]) :
            p \in {q \in ItemSeqs(n - 1) \X Containers : q[2].list \/ Len(q[2].keys) = Len(q[1])}}

\* The lists of at most n nodes whose items are scalars of any type.
RECURSIVE ScalarSeqs(_)
ScalarSeqs(m) ==
    IF m = 0 THEN {<<>>}
    ELSE {<<>>} \cup {<<Entry(<<>>, v)>> \o rest : v \in RootScalars, rest \in ScalarSeqs(m - 1)}
ScalarLists(n) == {List(items) : items \in ScalarSeqs(n - 1)}

(***************************************************************************)
(* Paths.  A segment is a str (a dict key or the type label) or an Index.  *)
(***************************************************************************)
Str(s) == [k |-> "str", s |-> s, i |-> 0]
Index(i) == [k |-> "idx", s |-> <<>>, i |-> i]

\* f'{typ.__name__}:{desc}' and typ.__name__ of a scalar.
Label(v, describe) ==
    IF describe /\ v.typ \in {S_int, S_float}
    THEN v.typ \o <<":">> \o (IF v.zero THEN S_zero ELSE S_nonzero)
    ELSE v.typ

\* The concatenation of a sequence of sequences.
RECURSIVE Flatten(_)
Flatten(ss) == IF ss = <<>> THEN <<>> ELSE Head(ss) \o Flatten(Tail(ss))

\* _get_paths(data): depth first, each entry's key or Index(i) put before the
\* paths of its value (i counts from 0).
RECURSIVE _get_paths(_, _)
_get_paths(v, describe) ==
    IF v.t = "scalar" THEN <<<<Str(Label(v, describe))>>>>
    ELSE Flatten([j \in 1..Len(v.items) |->
            LET k == IF v.t = "list" THEN Index(j - 1) ELSE Str(v.items[j].key)
                sub == _get_paths(v.items[j].val, describe)
            IN  [n \in 1..Len(sub) |-> <<k>> \o sub[n]]])

(***************************************************************************)
(* re.sub.  A pattern is a sequence of atoms: ["lit", c] matches the       *)
(* character c and ["digits"] is \d+ (greedy, giving back digits when the  *)
(* rest of the pattern needs them).                                        *)
(***************************************************************************)
Lit(c) == [a |-> "lit", c |-> c]
Digits == [a |-> "digits", c |-> ""]
Literal(s) == [j \in 1..Len(s) |-> Lit(s[j])]

\* The number of digits of s from position i on.
RECURSIVE DigitRun(_, _)
DigitRun(s, i) == IF i <= Len(s) /\ IsDigit(s[i]) THEN 1 + DigitRun(s, i + 1) ELSE 0

\* The position after the match of pat[k..] at s[i..], or 0 when there is none.
\* TryDigits(pat, k, s, i, m) is \d+ taking m digits, then m - 1, ...
RECURSIVE MatchFrom(_, _, _, _), TryDigits(_, _, _, _, _)
MatchFrom(pat, k, s, i) ==
    IF k > Len(pat) THEN i
    ELSE IF pat[k].a = "lit"
         THEN IF i <= Len(s) /\ s[i] = pat[k].c THEN MatchFrom(pat, k + 1, s, i + 1) ELSE 0
         ELSE TryDigits(pat, k, s, i, DigitRun(s, i))

TryDigits(pat, k, s, i, m) ==
    IF m = 0 THEN 0
    ELSE LET e == MatchFrom(pat, k + 1, s, i + m)
         IN  IF e # 0 THEN e ELSE TryDigits(pat, k, s, i, m - 1)

\* re.sub(pattern, replace_with, s) from position i on: the leftmost matches,
\* not overlapping, each replaced.
RECURSIVE SubFrom(_, _, _, _)
SubFrom(pat, repl, s, i) ==
    IF i > Len(s) THEN <<>>
    ELSE LET e == MatchFrom(pat, 1, s, i)
         IN  IF e # 0 THEN repl \o SubFrom(pat, repl, s, e)
             ELSE <<s[i]>> \o SubFrom(pat, repl, s, i + 1)

re_sub(pat, repl, s) == SubFrom(pat, repl, s, 1)

\* apply_patterns(patterns, data): every pattern in the dict's order, each on
\* the result of the one before; anything that is not a str is returned as is.
RECURSIVE SubAll(_, _)
SubAll(patterns, s) ==
    IF patterns = <<>> THEN s
    ELSE SubAll(Tail(patterns), re_sub(Head(patterns).pattern, Head(patterns).replace_with, s))

\* apply_patterns stopping after the first pattern of the dict.
apply_patterns_FirstOnly(patterns, seg) ==
    IF patterns # <<>> /\ seg.k = "str"
    THEN Str(re_sub(Head(patterns).pattern, Head(patterns).replace_with, seg.s))
    ELSE seg

apply_patterns(patterns, seg) ==
    IF patterns # <<>> /\ seg.k = "str" THEN Str(SubAll(patterns, seg.s)) ELSE seg

\* _apply_patterns(paths): apply_patterns on every x of every path.
_apply_patterns(patterns, ps) ==
    [n \in 1..Len(ps) |-> [j \in 1..Len(ps[n]) |-> apply_patterns(patterns, ps[n][j])]]

\* The values of key_patterns: None, {r"user_\d+": "user_*"} and
\* {r"\d+": "N", r"N": "n"}.
Pattern(pat, repl) == [pattern |-> pat, replace_with |-> repl]
KP_none == <<>>
KP_user == <<Pattern(Literal(<<"u", "s", "e", "r", "_">>) \o <<Digits>>, S_user_star)>>
KP_digits == <<Pattern(<<Digits>>, <<"N">>), Pattern(Literal(<<"N">>), <<"n">>)>>
KeyPatterns == {KP_none, KP_user, KP_digits}

\* _describe_numbers(paths): a no-op unless describe_numbers; then a path whose
\* last segment is still an int or a float would be relabelled, and the
\* assignment path[-1] = ... is a TypeError on a tuple.  _get_paths leaves only
\* str and Index segments, neither of which is an int or a float.
IsNumber(seg) == seg.k \notin {"str", "idx"}
_describe_numbers(describe, ps) ==
    IF ~describe THEN [raised |-> FALSE, paths |-> ps]
    ELSE IF \E n \in 1..Len(ps) : IsNumber(ps[n][Len(ps[n])])
         THEN [raised |-> TRUE, paths |-> <<>>]
         ELSE [raised |-> FALSE, paths |-> ps]

(***************************************************************************)
(* sorted(paths): the comparison of tuples.  Two tuples are compared item  *)
(* by item with == up to the first difference and then with <.  Between a  *)
(* str and an Index both raise AttributeError (Index.__eq__ and __lt__     *)
(* read other.i).                                                          *)
(***************************************************************************)
RECURSIVE PathCmp(_, _)
PathCmp(p, q) ==
    IF p = <<>> /\ q = <<>> THEN "eq"
    ELSE IF p = <<>> THEN "lt"
    ELSE IF q = <<>> THEN "gt"
    ELSE LET x == Head(p)
             y == Head(q)
         IN  IF x.k # y.k THEN "raise"
             ELSE IF x = y THEN PathCmp(Tail(p), Tail(q))
             ELSE IF x.k = "idx" THEN (IF x.i < y.i THEN "lt" ELSE "gt")
             ELSE IF StrLess(x.s, y.s) THEN "lt" ELSE "gt"

\* x put behind the last element of the sorted ps that is not greater (stable).
RECURSIVE InsertSorted(_, _)
InsertSorted(ps, x) ==
    IF ps = <<>> THEN <<x>>
    ELSE IF PathCmp(x, Head(ps)) = "lt" THEN <<x>> \o ps
    ELSE <<Head(ps)>> \o InsertSorted(Tail(ps), x)

RECURSIVE SortedPaths(_)
SortedPaths(ps) ==
    IF ps = <<>> THEN <<>>
    ELSE InsertSorted(SortedPaths(SubSeq(ps, 1, Len(ps) - 1)), ps[Len(ps)])

\* sorted(paths) leaving the paths in the order of the traversal.
sorted_Unsorted(ps) == [raised |-> FALSE, paths |-> ps]

\* sorted(paths).  A sort returns only after it has compared every two
\* neighbours of its result, and the paths below one (rewritten) prefix are
\* neighbours in any order: when two of them continue with a str and an Index
\* the comparison of some such pair is made, and raises.
sorted(ps) ==
    IF \E m, n \in 1..Len(ps) : PathCmp(ps[m], ps[n]) = "raise"
    THEN [raised |-> TRUE, paths |-> <<>>]
    ELSE [raised |-> FALSE, paths |-> SortedPaths(ps)]

\* dict.fromkeys(paths) as a list: the first occurrence of every path, in order.
RECURSIVE Dedup(_)
Dedup(ps) ==
    IF ps = <<>> THEN <<>>
    ELSE LET front == Dedup(SubSeq(ps, 1, Len(ps) - 1))
             x == ps[Len(ps)]
         IN  IF \E n \in 1..Len(front) : front[n] = x THEN front ELSE Append(front, x)

\* _collapse_paths(paths): every Index becomes Index(0), then the duplicates go.
\* CollapseIndex leaving every Index as it is.
CollapseIndex_Keep(seg) == seg
CollapseIndex(seg) == IF seg.k = "idx" THEN Index(0) ELSE seg
_collapse_paths(ps) ==
    Dedup([n \in 1..Len(ps) |-> [j \in 1..Len(ps[n]) |-> CollapseIndex(ps[n][j])]])

(***************************************************************************)
(* The tree of _merge_paths: a str (a leaf) or a dict, whose kids are its  *)
(* entries in insertion order.  The returned tree also has lists.          *)
(***************************************************************************)
Leaf(s) == [t |-> "str", s |-> s, kids |-> <<>>]
DictNode(kids) == [t |-> "dict", s |-> <<>>, kids |-> kids]
ListNode(kids) == [t |-> "list", s |-> <<>>, kids |-> kids]
\* An exception that leaves shape(), by the name of its type.
Raised(name) == [t |-> "raise", s |-> <<name>>, kids |-> <<>>]
NoResult == [t |-> "unset", s |-> <<>>, kids |-> <<>>]
\* The place of a list's item, which has no key.
NoKey == [k |-> "none", s |-> <<>>, i |-> 0]

\* The position of key among the entries, or 0 (key in cur).  A str and an
\* Index are never compared by the lookup: Index(i) hashes to i and the keys
\* here are non-empty strs, which do not hash to 0.
RECURSIVE Find(_, _)
Find(kids, key) ==
    IF kids = <<>> THEN 0
    ELSE IF kids[Len(kids)].key = key THEN Len(kids)
    ELSE Find(SubSeq(kids, 1, Len(kids) - 1), key)

\* The body of "for i in range(len(path) - 1)" from segment path[1] on, cur
\* being the node reached: the tree below cur afterwards, or the exception.
\* On a str, "key not in cur" is a substring test (a TypeError for an Index)
\* and both cur[key] = node and cur[key] == 'NoneType' are TypeErrors.
\* Walk without the test 'key not in cur or cur[key] == "NoneType"': every path
\* binds its own node at every key it passes.
RECURSIVE Walk_AlwaysAssign(_, _)
Walk_AlwaysAssign(cur, path) ==
    IF cur.t # "dict" THEN Raised("TypeError")
    ELSE LET key == path[1]
             node == IF Len(path) = 2 THEN Leaf(path[2].s) ELSE DictNode(<<>>)
             at == Find(cur.kids, key)
             kids1 == IF at = 0 THEN Append(cur.kids, Entry(key, node))
                      ELSE [cur.kids EXCEPT ![at].val = node]
             at1 == Find(kids1, key)
         IN  IF Len(path) = 2 THEN DictNode(kids1)
             ELSE LET sub == Walk_AlwaysAssign(kids1[at1].val, Tail(path))
                  IN  IF sub.t = "raise" THEN sub
                      ELSE DictNode([kids1 EXCEPT ![at1].val = sub])

\* Walk without "or cur[key] == 'NoneType'": a null leaf is never replaced.
RECURSIVE Walk_NoOverride(_, _)
Walk_NoOverride(cur, path) ==
    IF cur.t # "dict" THEN Raised("TypeError")
    ELSE LET key == path[1]
             node == IF Len(path) = 2 THEN Leaf(path[2].s) ELSE DictNode(<<>>)
             at == Find(cur.kids, key)
             kids1 == IF at = 0 THEN Append(cur.kids, Entry(key, node)) ELSE cur.kids
             at1 == Find(kids1, key)
         IN  IF Len(path) = 2 THEN DictNode(kids1)
             ELSE LET sub == Walk_NoOverride(kids1[at1].val, Tail(path))
                  IN  IF sub.t = "raise" THEN sub
                      ELSE DictNode([kids1 EXCEPT ![at1].val = sub])

RECURSIVE Walk(_, _)
Walk(cur, path) ==
    IF cur.t # "dict" THEN Raised("TypeError")
    ELSE LET key == path[1]
             node == IF Len(path) = 2 THEN Leaf(path[2].s) ELSE DictNode(<<>>)
             at == Find(cur.kids, key)
             kids1 == IF at = 0 THEN Append(cur.kids, Entry(key, node))
                      ELSE IF cur.kids[at].val = Leaf(S_NoneType)
                           THEN [cur.kids EXCEPT ![at].val = node]
                           ELSE cur.kids
             at1 == Find(kids1, key)
         IN  IF Len(path) = 2 THEN DictNode(kids1)
             ELSE LET sub == Walk(kids1[at1].val, Tail(path))
                  IN  IF sub.t = "raise" THEN sub
                      ELSE DictNode([kids1 EXCEPT ![at1].val = sub])

\* One turn of "for path in paths" of _merge_paths.
MergePath(tree, path) == IF Len(path) < 2 THEN tree ELSE Walk(tree, path)

\* _convert_lists without "or len(coll) == 0": list(coll.keys())[0] of an
\* empty dict is an IndexError.
RECURSIVE _convert_lists_NoEmptyCheck(_)
_convert_lists_NoEmptyCheck(coll) ==
    IF coll.t # "dict" THEN coll
    ELSE IF Len(coll.kids) = 0 THEN Raised("IndexError")
    ELSE IF coll.kids[1].key.k = "idx"
         THEN ListNode([n \in 1..Len(coll.kids) |->
                            Entry(NoKey, _convert_lists_NoEmptyCheck(coll.kids[n].val))])
         ELSE DictNode([n \in 1..Len(coll.kids) |->
                            Entry(coll.kids[n].key, _convert_lists_NoEmptyCheck(coll.kids[n].val))])

\* _convert_lists(coll).
RECURSIVE _convert_lists(_)
_convert_lists(coll) ==
    IF coll.t # "dict" \/ Len(coll.kids) = 0 THEN coll
    ELSE IF coll.kids[1].key.k = "idx"
         THEN ListNode([n \in 1..Len(coll.kids) |->
                            Entry(NoKey, _convert_lists(coll.kids[n].val))])
         ELSE DictNode([n \in 1..Len(coll.kids) |->
                            Entry(coll.kids[n].key, _convert_lists(coll.kids[n].val))])

Init ==
    /\ \/ /\ \E n \in 1..MaxSize : data \in ValuesOfSize(n)
          /\ key_patterns = KP_none
          /\ describe_numbers = FALSE
          /\ sort = FALSE
       \/ /\ data \in ScalarLists(MaxSize - 1)
          /\ key_patterns = KP_none
          /\ describe_numbers \in BOOLEAN
          /\ sort = FALSE
       \/ /\ \/ data \in RootScalars
             \/ \E n \in 1..(MaxSize - 1) : data \in ValuesOfSize(n)
          /\ key_patterns \in KeyPatterns
          /\ describe_numbers \in BOOLEAN
          /\ sort \in BOOLEAN
    /\ pc = "get_paths"
    /\ paths = <<>>
    /\ merged = DictNode(<<>>)
    /\ path_i = 1
    /\ result = NoResult

GetPathsStage ==
    /\ pc = "get_paths"
    /\ paths' = _get_paths(data, describe_numbers)
    /\ pc' = "apply_patterns"
    /\ UNCHANGED <<data, key_patterns, describe_numbers, sort, merged, path_i, result>>

ApplyPatternsStage ==
    /\ pc = "apply_patterns"
    /\ paths' = _apply_patterns(key_patterns, paths)
    /\ pc' = "describe_numbers"
    /\ UNCHANGED <<data, key_patterns, describe_numbers, sort, merged, path_i, result>>

DescribeNumbersStage ==
    /\ pc = "describe_numbers"
    /\ LET r == _describe_numbers(describe_numbers, paths)
       IN  IF r.raised
           THEN /\ pc' = "error"
                /\ result' = Raised("TypeError")
                /\ UNCHANGED paths
           ELSE /\ pc' = "sort"
                /\ paths' = r.paths
                /\ UNCHANGED result
    /\ UNCHANGED <<data, key_patterns, describe_numbers, sort, merged, path_i>>

\* if sort: paths = sorted(paths)
SortStage ==
    /\ pc = "sort"
    /\ LET r == IF sort THEN sorted(paths) ELSE [raised |-> FALSE, paths |-> paths]
       IN  IF r.raised
           THEN /\ pc' = "error"
                /\ result' = Raised("AttributeError")
                /\ UNCHANGED paths
           ELSE /\ pc' = "collapse"
                /\ paths' = r.paths
                /\ UNCHANGED result
    /\ UNCHANGED <<data, key_patterns, describe_numbers, sort, merged, path_i>>

\* paths = _collapse_paths(paths), and merged = {} of _merge_paths.
CollapseStage ==
    /\ pc = "collapse"
    /\ paths' = _collapse_paths(paths)
    /\ merged' = DictNode(<<>>)
    /\ path_i' = 1
    /\ pc' = "merge"
    /\ UNCHANGED <<data, key_patterns, describe_numbers, sort, result>>

\* One path of "for path in paths".  An exception leaves shape() and the
\* accumulator, which is local, is lost.
MergeStep ==
    /\ pc = "merge"
    /\ path_i <= Len(paths)
    /\ LET t == MergePath(merged, paths[path_i])
       IN  IF t.t = "raise"
           THEN /\ pc' = "error"
                /\ result' = t
                /\ UNCHANGED <<merged, path_i>>
           ELSE /\ merged' = t
                /\ path_i' = path_i + 1
                /\ UNCHANGED <<pc, result>>
    /\ UNCHANGED <<data, key_patterns, describe_numbers, sort, paths>>

\* return _convert_lists(merged)
ConvertStage ==
    /\ pc = "merge"
    /\ path_i > Len(paths)
    /\ result' = _convert_lists(merged)
    /\ pc' = "done"
    /\ UNCHANGED <<data, key_patterns, describe_numbers, sort, paths, merged, path_i>>

Next ==
    \/ GetPathsStage
    \/ ApplyPatternsStage
    \/ DescribeNumbersStage
    \/ SortStage
    \/ CollapseStage
    \/ MergeStep
    \/ ConvertStage

Spec == Init /\ [][Next]_vars

(***************************************************************************)
(* shape() as a function of its arguments: the stages in the order of      *)
(* lines 88-95.                                                            *)
(***************************************************************************)
RECURSIVE MergeFrom(_, _, _)
MergeFrom(tree, ps, n) ==
    IF n > Len(ps) THEN tree
    ELSE LET t == MergePath(tree, ps[n])
         IN  IF t.t = "raise" THEN t ELSE MergeFrom(t, ps, n + 1)

_merge_paths(ps) ==
    LET t == MergeFrom(DictNode(<<>>), ps, 1)
    IN  IF t.t = "raise" THEN t ELSE _convert_lists(t)

\* The list of paths handed to _merge_paths, or the exception raised before.
PathsToMerge(d, patterns, describe, so) ==
    LET dn == _describe_numbers(describe, _apply_patterns(patterns, _get_paths(d, describe)))
    IN  IF dn.raised THEN [raised |-> TRUE, name |-> "TypeError", paths |-> <<>>]
        ELSE LET st == IF so THEN sorted(dn.paths) ELSE [raised |-> FALSE, paths |-> dn.paths]
             IN  IF st.raised THEN [raised |-> TRUE, name |-> "AttributeError", paths |-> <<>>]
                 ELSE [raised |-> FALSE, name |-> "", paths |-> _collapse_paths(st.paths)]

shape(d, patterns, describe, so) ==
    LET r == PathsToMerge(d, patterns, describe, so)
    IN  IF r.raised THEN Raised(r.name) ELSE _merge_paths(r.paths)

(***************************************************************************)
(* The claims                                                              *)
(***************************************************************************)
DefaultOptions == key_patterns = KP_none /\ ~describe_numbers /\ ~sort
Finished == pc \in {"done", "error"}
ItemVals(v) == {v.items[j].val : j \in 1..Len(v.items)}
NonNullTypes == {S_int, S_float, S_str}
OneItemList(node) == ListNode(<<Entry(NoKey, node)>>)

\* A list whose items are each None or a scalar of type T.
NullOrOneType(v, T) ==
    v.t = "list" /\ \A x \in ItemVals(v) : x.t = "scalar" /\ x.typ \in {S_NoneType, T}

\* C1: with the default options, a list of Nones and scalars of one non-null
\* type T, at least one of them of type T, shapes to [T] wherever the Nones
\* stand, and such a list shapes to ["NoneType"] only if every item is None.
C1_NullOverride ==
    (Finished /\ DefaultOptions) =>
        \A T \in NonNullTypes :
            NullOrOneType(data, T) =>
                /\ (\E x \in ItemVals(data) : x.typ = T) =>
                        (pc = "done" /\ result = OneItemList(Leaf(T)))
                /\ (pc = "done" /\ result = OneItemList(Leaf(S_NoneType))) =>
                        (\A x \in ItemVals(data) : x.typ = S_NoneType)

\* [None, <T>, ...] has been shaped to [T]: the None came first.
C1_Witness ==
    /\ pc = "done" /\ DefaultOptions
    /\ \E T \in NonNullTypes :
        /\ NullOrOneType(data, T)
        /\ Len(data.items) >= 2
        /\ data.items[1].val = V_None
        /\ data.items[2].val.typ = T
        /\ result = OneItemList(Leaf(T))

\* A non-empty list of dicts whose values are scalars, all of type T.
FlatDictsOfType(v, T) ==
    /\ v.t = "list" /\ Len(v.items) >= 1
    /\ \A x \in ItemVals(v) :
        x.t = "dict" /\ \A y \in ItemVals(x) : y.t = "scalar" /\ y.typ = T
ScalarTypes == NonNullTypes \cup {S_NoneType}
DictKeys(x) == {Str(x.items[j].key) : j \in 1..Len(x.items)}
KeysOfItems(v) == UNION {DictKeys(x) : x \in ItemVals(v)}
NodeKeys(node) == {node.kids[n].key : n \in 1..Len(node.kids)}
\* res is a list of exactly one item, a dict with the keys ks.
OneDictOf(res, ks) ==
    /\ res.t = "list" /\ Len(res.kids) = 1
    /\ res.kids[1].val.t = "dict"
    /\ NodeKeys(res.kids[1].val) = ks

\* C2 as claimed: without key patterns, every non-empty list of dicts whose
\* values are scalars of one type shapes to a list of exactly one dict, whose
\* keys are the union of the keys of the items.
C2_Original ==
    (Finished /\ key_patterns = KP_none /\ \E T \in ScalarTypes : FlatDictsOfType(data, T)) =>
        (pc = "done" /\ OneDictOf(result, KeysOfItems(data)))

\* C2 as amended: the same, for lists of which at least one item is not the
\* empty dict.
C2_HomogeneousCollapse ==
    (/\ Finished /\ key_patterns = KP_none
     /\ \E T \in ScalarTypes : FlatDictsOfType(data, T)
     /\ \E x \in ItemVals(data) : x.items # <<>>) =>
        (pc = "done" /\ OneDictOf(result, KeysOfItems(data)))

\* Two dicts with different keys have been collapsed into one dict of two keys.
C2_Witness ==
    /\ pc = "done" /\ key_patterns = KP_none
    /\ \E T \in ScalarTypes : FlatDictsOfType(data, T)
    /\ Len(data.items) = 2
    /\ DictKeys(data.items[1].val) # DictKeys(data.items[2].val)
    /\ Cardinality(KeysOfItems(data)) = 2
    /\ OneDictOf(result, KeysOfItems(data))

\* What the keys of the inputs become under each value of key_patterns:
\* user_1 and user_2 become user_* under {r"user_\d+": "user_*"} and user_n
\* under {r"\d+": "N", r"N": "n"} (user_N after the first pattern).
S_user_n == <<"u", "s", "e", "r", "_", "n">>
ExpectedKey(patterns, key) ==
    IF patterns = KP_user THEN S_user_star
    ELSE IF patterns = KP_digits THEN S_user_n
    ELSE key

\* The places of the entries of the input, as the shape names them: a dict
\* entry by its rewritten key, a list item by Index(0).
RECURSIVE ExpectedPlaces(_, _)
ExpectedPlaces(v, patterns) ==
    UNION {LET k == IF v.t = "list" THEN Index(0)
                    ELSE Str(ExpectedKey(patterns, v.items[j].key))
           IN  {<<k>>} \cup {<<k>> \o p : p \in ExpectedPlaces(v.items[j].val, patterns)}
           : j \in 1..Len(v.items)}

\* The places of the entries of a returned tree (a list's item is at Index(0)).
RECURSIVE Places(_)
Places(node) ==
    UNION {LET k == IF node.t = "list" THEN Index(0) ELSE node.kids[n].key
           IN  {<<k>>} \cup {<<k>> \o p : p \in Places(node.kids[n].val)}
           : n \in 1..Len(node.kids)}

\* The nodes of a tree.
RECURSIVE Nodes(_)
Nodes(node) == {node} \cup UNION {Nodes(node.kids[n].val) : n \in 1..Len(node.kids)}

DistinctKeys(node) == \A m, n \in 1..Len(node.kids) : node.kids[m].key = node.kids[n].key => m = n

\* C3: with key_patterns given, every key of the returned tree is, at its
\* place, a key of the input with all patterns applied in order, and no dict
\* of the returned tree holds one key twice.
C3_KeysRewritten ==
    (pc = "done" /\ key_patterns # KP_none) =>
        /\ Places(result) \subseteq ExpectedPlaces(data, key_patterns)
        /\ \A node \in Nodes(result) : node.t = "dict" => DistinctKeys(node)

\* {"user_1": .., "user_2": ..} has been shaped to a dict of the one key user_*.
C3_Witness ==
    /\ pc = "done" /\ key_patterns = KP_user
    /\ data.t = "dict" /\ DictKeys(data) = {Str(S_user_1), Str(S_user_2)}
    /\ result.t = "dict" /\ Len(result.kids) = 1
    /\ result.kids[1].key = Str(S_user_star)

\* C4 as claimed: the shape of a scalar is its type label, "<type>:zero" or
\* "<type>:nonzero" for an int or a float under describe_numbers.
C4_RootScalarLabel ==
    (Finished /\ key_patterns = KP_none /\ data.t = "scalar") =>
        /\ pc = "done"
        /\ result = Leaf(IF describe_numbers /\ data.typ \in {S_int, S_float}
                         THEN data.typ \o <<":">> \o (IF data.zero THEN S_zero ELSE S_nonzero)
                         ELSE data.typ)

\* An empty list or dict.
IsEmptyContainer(v) == v.t \in {"list", "dict"} /\ v.items = <<>>
\* An empty container, or a dict all of whose values are empty containers.
EmptyAtRootOrUnderKeys(v) ==
    \/ IsEmptyContainer(v)
    \/ v.t = "dict" /\ \A x \in ItemVals(v) : IsEmptyContainer(x)

\* The tree that is the input itself (for inputs without scalars).
RECURSIVE AsTree(_)
AsTree(v) ==
    IF v.t = "list" THEN ListNode([j \in 1..Len(v.items) |-> Entry(NoKey, AsTree(v.items[j].val))])
    ELSE DictNode([j \in 1..Len(v.items) |-> Entry(Str(v.items[j].key), AsTree(v.items[j].val))])

\* C5 as claimed: an empty container at the root or under a key is returned
\* unchanged: shape([]) is [] and shape({"x": []}) is {"x": []}.
C5_Original ==
    (Finished /\ key_patterns = KP_none /\ EmptyAtRootOrUnderKeys(data)) =>
        (pc = "done" /\ result = AsTree(data))

\* C5 as amended: an empty container yields no path and does not show in the
\* result: shape([]) and shape({"x": []}) are both the empty dict {}.
C5_EmptyInvisible ==
    (Finished /\ EmptyAtRootOrUnderKeys(data)) =>
        (pc = "done" /\ result = DictNode(<<>>))

\* A dict with an empty container under a key has been shaped to {}.
C5_Witness ==
    /\ pc = "done"
    /\ data.t = "dict" /\ Len(data.items) >= 1
    /\ \A x \in ItemVals(data) : IsEmptyContainer(x)
    /\ result = DictNode(<<>>)

\* Every way to pick one element of each set of a sequence of sets.
RECURSIVE Choices(_)
Choices(sets) ==
    IF sets = <<>> THEN {<<>>}
    ELSE {<<x>> \o rest : x \in Head(sets), rest \in Choices(Tail(sets))}

Orderings(n) == {f \in [1..n -> 1..n] : \A a, b \in 1..n : f[a] = f[b] => a = b}

\* The values equal to v that differ from it at most in the order in which
\* their dicts hold their keys.
RECURSIVE KeyOrders(_)
KeyOrders(v) ==
    IF v.t = "scalar" THEN {v}
    ELSE LET cs == Choices([j \in 1..Len(v.items) |->
                        {Entry(v.items[j].key, x) : x \in KeyOrders(v.items[j].val)}])
         IN  IF v.t = "list" THEN {List(c) : c \in cs}
             ELSE {Dict([j \in 1..Len(c) |-> c[f[j]]]) : c \in cs, f \in Orderings(Len(v.items))}

\* C6: under sort=True, an input that differs from data only in the order of
\* the keys of its dicts hands the same list of paths to _merge_paths, and
\* shape returns the same for it, the order of the keys of every dict included
\* (or ends in the same exception).
C6_SortDeterminism ==
    /\ (sort /\ pc = "merge") =>
            \A d \in KeyOrders(data) :
                PathsToMerge(d, key_patterns, describe_numbers, TRUE)
                    = [raised |-> FALSE, name |-> "", paths |-> paths]
    /\ (sort /\ Finished) =>
            \A d \in KeyOrders(data) :
                shape(d, key_patterns, describe_numbers, TRUE) = result

\* A dict that holds user_2 before user_1 has been shaped, under sort=True, to
\* a dict that holds user_1 before user_2.
C6_Witness ==
    /\ pc = "done" /\ sort /\ key_patterns = KP_none
    /\ data.t = "dict" /\ Len(data.items) = 2
    /\ data.items[1].key = S_user_2 /\ data.items[2].key = S_user_1
    /\ result.t = "dict" /\ Len(result.kids) = 2
    /\ result.kids[1].key = Str(S_user_1) /\ result.kids[2].key = Str(S_user_2)

\* C7 as claimed: with the default options, shape never ends in an exception.
C7_Total == DefaultOptions => pc # "error"

\* C8 as claimed: every node of the returned tree is a type label, a dict all
\* of whose keys are strings, or a list of exactly one item.
C8_OutputStructure ==
    pc = "done" =>
        \A node \in Nodes(result) :
            \/ node.t = "str"
            \/ node.t = "dict" /\ \A k \in NodeKeys(node) : k.k = "str"
            \/ node.t = "list" /\ Len(node.kids) = 1

\* The leaf labels of a tree, each with its place.
RECURSIVE Leaves(_)
Leaves(node) ==
    IF node.t = "str" THEN {[at |-> <<>>, label |-> node.s]}
    ELSE UNION {LET k == IF node.t = "list" THEN Index(0) ELSE node.kids[n].key
                IN  {[at |-> <<k>> \o l.at, label |-> l.label] : l \in Leaves(node.kids[n].val)}
                : n \in 1..Len(node.kids)}
LeafLabels(node) == {l.label : l \in Leaves(node)}

\* C9 as claimed: _apply_patterns leaves the last segment of every path, the
\* type label, as _get_paths made it, and the labels of the returned tree are
\* those of the call without key_patterns.
C9_LabelsKept ==
    /\ (pc = "describe_numbers") =>
            \A n \in 1..Len(paths) :
                paths[n][Len(paths[n])] =
                    LET p == _get_paths(data, describe_numbers)[n] IN p[Len(p)]
    /\ (pc = "done" /\ shape(data, KP_none, describe_numbers, sort).t # "raise") =>
            LeafLabels(result) = LeafLabels(shape(data, KP_none, describe_numbers, sort))

\* The node of a tree at a place, or NoResult where it has none.
RECURSIVE NodeAt(_, _)
NodeAt(tree, at) ==
    IF at = <<>> THEN tree
    ELSE LET n == Find(tree.kids, Head(at))
         IN  IF n = 0 THEN NoResult ELSE NodeAt(tree.kids[n].val, Tail(at))

\* The path reaches the place: it goes on after the keys that lead there.
Reaches(path, at) == Len(at) < Len(path) /\ SubSeq(path, 1, Len(at)) = at

\* C10: in a step of the fold of _merge_paths, a place bound to "NoneType" is
\* bound anew by the path of the step if that path reaches it (to the path's
\* label, or to a dict when the path goes deeper) and is left alone otherwise;
\* a place bound to another label keeps that label and a place bound to a
\* dict stays bound to a dict.
C10_MergeFold ==
    [][(pc = "merge" /\ pc' = "merge" /\ path_i' = path_i + 1) =>
        \A at \in Places(merged) :
            LET now == NodeAt(merged, at)
                later == NodeAt(merged', at)
                path == paths[path_i]
            IN  /\ (now.t = "str" /\ now # Leaf(S_NoneType)) => later = now
                /\ (now.t = "dict") => later.t = "dict"
                /\ (now = Leaf(S_NoneType) /\ Reaches(path, at)) =>
                        IF Len(path) = Len(at) + 1
                        THEN later = Leaf(path[Len(path)].s) /\ later # now
                        ELSE later.t = "dict"
                /\ (now = Leaf(S_NoneType) /\ ~Reaches(path, at)) => later = now]_vars

\* The fold has passed a path ending in "NoneType" and the place that path
\* bound is bound to something else by now.
C10_Witness ==
    /\ pc = "merge"
    /\ \E m \in 1..(path_i - 1) :
        LET p == paths[m]
        IN  /\ Len(p) >= 2
            /\ p[Len(p)] = Str(S_NoneType)
            /\ NodeAt(merged, SubSeq(p, 1, Len(p) - 1)) # Leaf(S_NoneType)

====
